---- MODULE Spec2Model ----
(***************************************************************************)
(* State-machine model of netd/BpfHandler.cpp: the start-up feature        *)
(* negotiation and cgroup hook attachment (initPrograms, initMaps) and the *)
(* run-time socket attribution operations (tagSocket, untagSocket).        *)
(***************************************************************************)
EXTENDS Integers, Sequences, FiniteSets, TLC

(***************************************************************************)
(* Program constants.                                                      *)
(***************************************************************************)
\* BpfHandler.cpp:42
PER_UID_STATS_ENTRIES_LIMIT == 500
\* bpf shared header: capacity of each stats map; used at BpfHandler.cpp:47
STATS_MAP_SIZE == 5000
\* BpfHandler.cpp:47  (STATS_MAP_SIZE * 0.9, truncated to int)
TOTAL_UID_STATS_ENTRIES_LIMIT == (STATS_MAP_SIZE * 9) \div 10

\* android_filesystem_config.h identities used at BpfHandler.cpp:208 and :221
AID_ROOT == 0
AID_SYSTEM == 1000
AID_CLAT == 1029
AID_DNS == 1051
\* multi-user uid range, used at BpfHandler.cpp:203
PER_USER_RANGE == 100000
\* permission bits of the uid permission map, used at BpfHandler.cpp:205
BPF_PERMISSION_INTERNET == 4
BPF_PERMISSION_UPDATE_DEVICE_STATS == 8
\* configuration map key and values, used at BpfHandler.cpp:275-287
CURRENT_STATS_MAP_CONFIGURATION_KEY == 1
SELECT_MAP_A == 0
SELECT_MAP_B == 1

\* errno values returned (negated) by tagSocket / untagSocket
EPERM == 1
ENOENT == 2
EIO == 5
E2BIG == 7
EBADF == 9
EINVAL == 22
EMFILE == 24
EPROTONOSUPPORT == 93
EAFNOSUPPORT == 97

\* socket option values compared at BpfHandler.cpp:238 and :249
AF_UNIX == 1
AF_INET == 2
AF_INET6 == 10
IPPROTO_ICMP == 1
IPPROTO_TCP == 6
IPPROTO_UDP == 17

\* android SDK levels behind IsAtLeastT / IsAtLeastU / IsAtLeastV
SDK_S == 31
SDK_T == 33
SDK_U == 34
SDK_V == 35

\* KVER(a, b, c) of the bpf headers: the three-part kernel version as one integer
KVER(a, b, c) == a * 16777216 + b * 65536 + c

(***************************************************************************)
(* Bounds of the model.                                                    *)
(***************************************************************************)
\* limits passed to the two-argument constructor BpfHandler(perUidLimit, totalLimit)
TestPerUidLimit == 1
TestTotalLimit == 2
\* caller threads that may be inside tagSocket at once
Threads == {1, 2}

VARIABLES
    sdk,            \* platform SDK level of the device
    kver,           \* running kernel version, KVER-encoded
    kernel32,       \* bpf::isKernel32Bit()
    user32,         \* bpf::isUserspace32bit()
    mPerUidStatsEntriesLimit,
    mTotalUidStatsEntriesLimit,
    initStatus,     \* "none" | "ok" | "error" | "abort": outcome of init()
    initReason,     \* the Status message / failing step of the last init()
    initPath,       \* cg2_path argument of the last init()
    attached,       \* hook points attached so far, in attach order
    queried,        \* hook points verified by queryProgram() > 0, in order
    validMaps,      \* BpfMap members whose init() succeeded (isValid())
    mCookieTagMap,  \* cookie -> UidTagValue
    mStatsMapA,     \* uid -> number of StatsKey entries with that uid
    mStatsMapB,
    mConfigurationMap,
    mUidPermissionMap,
    th,             \* per caller thread: position inside tagSocket and its locals
    last,           \* the call that returned most recently, with its return value
    maxInflight     \* largest number of tagSocket calls in flight at once so far

vars == <<sdk, kver, kernel32, user32, mPerUidStatsEntriesLimit,
          mTotalUidStatsEntriesLimit, initStatus, initReason, initPath, attached,
          queried, validMaps, mCookieTagMap, mStatsMapA, mStatsMapB,
          mConfigurationMap, mUidPermissionMap, th, last, maxInflight>>

factVars == <<sdk, kver, kernel32, user32, mPerUidStatsEntriesLimit,
              mTotalUidStatsEntriesLimit>>
initVars == <<initStatus, initReason, initPath, attached, queried, validMaps>>
envVars == <<mStatsMapA, mStatsMapB, mConfigurationMap, mUidPermissionMap>>
callVars == <<mCookieTagMap, th, last, maxInflight>>

(***************************************************************************)
(* Feature matrix: initPrograms, lines 72-116.                             *)
(***************************************************************************)
IsAtLeastT == sdk >= SDK_T
IsAtLeastU == sdk >= SDK_U
IsAtLeastV == sdk >= SDK_V
isAtLeastKernelVersion(major, minor, sub) == kver >= KVER(major, minor, sub)

NullPath == "NULL"
CanonicalPath == "/sys/fs/cgroup"
LegacyPath == "/dev/cg2_bpf"
Paths == {NullPath, CanonicalPath, LegacyPath}

\* GateRule with the mount-point rule tested before the kernel floors
GateRule_PathFirst(cg2_path) ==
    IF cg2_path = NullPath THEN 1
    ELSE IF ~IsAtLeastT THEN 2
    ELSE IF ~isAtLeastKernelVersion(4, 9, 0) THEN 3
    ELSE IF IsAtLeastU /\ cg2_path # CanonicalPath THEN 8
    ELSE IF IsAtLeastU /\ ~isAtLeastKernelVersion(4, 14, 0) THEN 4
    ELSE IF IsAtLeastV /\ ~isAtLeastKernelVersion(4, 19, 0) THEN 5
    ELSE IF IsAtLeastV /\ kernel32 /\ isAtLeastKernelVersion(5, 16, 0) THEN 6
    ELSE IF user32 /\ isAtLeastKernelVersion(6, 2, 0) THEN 7
    ELSE 0

\* GateRule whose 6.2.0 rule does not look at the userspace bitness
GateRule_AnyUserspace(cg2_path) ==
    IF cg2_path = NullPath THEN 1
    ELSE IF ~IsAtLeastT THEN 2
    ELSE IF ~isAtLeastKernelVersion(4, 9, 0) THEN 3
    ELSE IF IsAtLeastU /\ ~isAtLeastKernelVersion(4, 14, 0) THEN 4
    ELSE IF IsAtLeastV /\ ~isAtLeastKernelVersion(4, 19, 0) THEN 5
    ELSE IF IsAtLeastV /\ kernel32 /\ isAtLeastKernelVersion(5, 16, 0) THEN 6
    ELSE IF isAtLeastKernelVersion(6, 2, 0) THEN 7
    ELSE IF IsAtLeastU /\ cg2_path # CanonicalPath THEN 8
    ELSE 0

\* The number of the first gate that rejects (1..8), or 0 when all pass.
GateRule(cg2_path) ==
    IF cg2_path = NullPath THEN 1
    ELSE IF ~IsAtLeastT THEN 2
    ELSE IF ~isAtLeastKernelVersion(4, 9, 0) THEN 3
    ELSE IF IsAtLeastU /\ ~isAtLeastKernelVersion(4, 14, 0) THEN 4
    ELSE IF IsAtLeastV /\ ~isAtLeastKernelVersion(4, 19, 0) THEN 5
    ELSE IF IsAtLeastV /\ kernel32 /\ isAtLeastKernelVersion(5, 16, 0) THEN 6
    ELSE IF user32 /\ isAtLeastKernelVersion(6, 2, 0) THEN 7
    ELSE IF IsAtLeastU /\ cg2_path # CanonicalPath THEN 8
    ELSE 0

GateReason(rule) ==
    CASE rule = 1 -> "cg2_path is NULL"
      [] rule = 2 -> "S- platform is unsupported"
      [] rule = 3 -> "kernel version < 4.9.0 is unsupported"
      [] rule = 4 -> "U+ platform with kernel version < 4.14.0 is unsupported"
      [] rule = 5 -> "V+ platform with kernel version < 4.19.0 is unsupported"
      [] rule = 6 -> "V+ platform with 32 bit kernel, version >= 5.16.0 is unsupported"
      [] rule = 7 -> "32 bit userspace with Kernel version >= 6.2.0 is unsupported"
      [] rule = 8 -> "U+ platform with cg2_path != /sys/fs/cgroup is unsupported"
      [] OTHER -> ""

(***************************************************************************)
(* Hook attachment: initPrograms, lines 118-167.                           *)
(***************************************************************************)
XtProgs == {"xt_allowlist", "xt_denylist", "xt_egress", "xt_ingress"}
Hooks == {"egress", "ingress", "sock_create", "bind4", "bind6", "setsockopt"}
\* the map init order with the cookie-tag map first
MapInitOrder_CookieFirst == <<"mCookieTagMap", "mStatsMapA", "mStatsMapB",
                              "mConfigurationMap", "mUidPermissionMap">>
MapInitOrder == <<"mStatsMapA", "mStatsMapB", "mConfigurationMap",
                  "mUidPermissionMap", "mCookieTagMap">>
MapNames == {MapInitOrder[i] : i \in 1..Len(MapInitOrder)}

\* What the environment makes go wrong during one init(): at most one of the
\* open, a program lookup, an attach, a query or a map init.
NoFail == [op |-> "none", arg |-> "none"]
FailPoints ==
    {NoFail} \cup {[op |-> "open", arg |-> "cgroup"]}
    \cup [op : {"retrieve"}, arg : XtProgs \cup Hooks]
    \cup [op : {"attach", "query"}, arg : Hooks]
    \cup [op : {"mapinit"}, arg : MapNames]

Step(op, arg) == [op |-> op, arg |-> arg]

\* AttachPlan with the socket-create hook gated by the platform tier
AttachPlan_SockCreateByTier ==
    <<Step("open", "cgroup"),
      Step("check", "xt_allowlist"), Step("check", "xt_denylist"),
      Step("check", "xt_egress"), Step("check", "xt_ingress"),
      Step("attach", "egress"), Step("attach", "ingress")>>
    \o (IF IsAtLeastU THEN <<Step("attach", "sock_create")>> ELSE <<>>)
    \o (IF isAtLeastKernelVersion(4, 19, 0)
        THEN <<Step("attach", "bind4"), Step("attach", "bind6"),
               Step("query", "egress"), Step("query", "ingress"),
               Step("query", "bind4"), Step("query", "bind6")>>
        ELSE <<>>)
    \o (IF isAtLeastKernelVersion(5, 8, 0)
        THEN <<Step("attach", "setsockopt"), Step("query", "setsockopt")>>
        ELSE <<>>)

\* AttachPlan that forgets the ingress hook
AttachPlan_NoIngress ==
    <<Step("open", "cgroup"),
      Step("check", "xt_allowlist"), Step("check", "xt_denylist"),
      Step("check", "xt_egress"), Step("check", "xt_ingress"),
      Step("attach", "egress")>>
    \o (IF isAtLeastKernelVersion(4, 14, 0)
        THEN <<Step("attach", "sock_create")>> ELSE <<>>)
    \o (IF isAtLeastKernelVersion(4, 19, 0)
        THEN <<Step("attach", "bind4"), Step("attach", "bind6"),
               Step("query", "egress"), Step("query", "ingress"),
               Step("query", "sock_create"), Step("query", "bind4"),
               Step("query", "bind6")>>
        ELSE <<>>)
    \o (IF isAtLeastKernelVersion(5, 8, 0)
        THEN <<Step("attach", "setsockopt"), Step("query", "setsockopt")>>
        ELSE <<>>)

\* AttachPlan that attaches the bind hooks without verifying them
AttachPlan_NoBindQuery ==
    <<Step("open", "cgroup"),
      Step("check", "xt_allowlist"), Step("check", "xt_denylist"),
      Step("check", "xt_egress"), Step("check", "xt_ingress"),
      Step("attach", "egress"), Step("attach", "ingress")>>
    \o (IF isAtLeastKernelVersion(4, 14, 0)
        THEN <<Step("attach", "sock_create")>> ELSE <<>>)
    \o (IF isAtLeastKernelVersion(4, 19, 0)
        THEN <<Step("attach", "bind4"), Step("attach", "bind6"),
               Step("query", "egress"), Step("query", "ingress"),
               Step("query", "sock_create")>>
        ELSE <<>>)
    \o (IF isAtLeastKernelVersion(5, 8, 0)
        THEN <<Step("attach", "setsockopt"), Step("query", "setsockopt")>>
        ELSE <<>>)

\* The straight-line sequence of lines 118-165 for the running kernel.
AttachPlan ==
    <<Step("open", "cgroup"),
      Step("check", "xt_allowlist"), Step("check", "xt_denylist"),
      Step("check", "xt_egress"), Step("check", "xt_ingress"),
      Step("attach", "egress"), Step("attach", "ingress")>>
    \o (IF isAtLeastKernelVersion(4, 14, 0)
        THEN <<Step("attach", "sock_create")>> ELSE <<>>)
    \o (IF isAtLeastKernelVersion(4, 19, 0)
        THEN <<Step("attach", "bind4"), Step("attach", "bind6"),
               Step("query", "egress"), Step("query", "ingress"),
               Step("query", "sock_create"), Step("query", "bind4"),
               Step("query", "bind6")>>
        ELSE <<>>)
    \o (IF isAtLeastKernelVersion(5, 8, 0)
        THEN <<Step("attach", "setsockopt"), Step("query", "setsockopt")>>
        ELSE <<>>)

\* lines 52-62
attachProgramToCgroup(prog, fail) ==
    IF fail = Step("retrieve", prog) THEN "Failed to get program from"
    ELSE IF fail = Step("attach", prog) THEN "Program attach failed"
    ELSE "ok"

\* lines 64-70
checkProgramAccessible(prog, fail) ==
    IF fail = Step("retrieve", prog) THEN "Failed to get program from" ELSE "ok"

\* bpf::queryProgram: the number of programs attached at the hook point
queryProgram(hook, att, fail) ==
    IF fail = Step("query", hook) THEN 0
    ELSE Cardinality({i \in 1..Len(att) : att[i] = hook})

InitOutcome(status, msg, arg, rule, att, qry) ==
    [status |-> status, reason |-> <<msg, arg>>, rule |-> rule,
     attached |-> att, queried |-> qry]

\* RunPlan that carries on after an attach that failed
RECURSIVE RunPlan_KeepGoing(_, _, _, _)
RunPlan_KeepGoing(plan, att, qry, fail) ==
    IF plan = <<>> THEN InitOutcome("ok", "", "", 0, att, qry)
    ELSE
      LET s == Head(plan)
          rest == Tail(plan)
      IN CASE s.op = "open" ->
                IF fail = s
                THEN InitOutcome("error", "Open the cgroup directory failed", "", 0, att, qry)
                ELSE RunPlan_KeepGoing(rest, att, qry, fail)
           [] s.op = "check" ->
                LET r == checkProgramAccessible(s.arg, fail)
                IN IF r # "ok" THEN InitOutcome("error", r, s.arg, 0, att, qry)
                   ELSE RunPlan_KeepGoing(rest, att, qry, fail)
           [] s.op = "attach" ->
                LET r == attachProgramToCgroup(s.arg, fail)
                IN IF r # "ok" THEN RunPlan_KeepGoing(rest, att, qry, fail)
                   ELSE RunPlan_KeepGoing(rest, Append(att, s.arg), qry, fail)
           [] s.op = "query" ->
                IF queryProgram(s.arg, att, fail) <= 0
                THEN InitOutcome("abort", "abort", s.arg, 0, att, qry)
                ELSE RunPlan_KeepGoing(rest, att, Append(qry, s.arg), fail)

RECURSIVE RunPlan(_, _, _, _)
RunPlan(plan, att, qry, fail) ==
    IF plan = <<>> THEN InitOutcome("ok", "", "", 0, att, qry)
    ELSE
      LET s == Head(plan)
          rest == Tail(plan)
      IN CASE s.op = "open" ->
                IF fail = s
                THEN InitOutcome("error", "Open the cgroup directory failed", "", 0, att, qry)
                ELSE RunPlan(rest, att, qry, fail)
           [] s.op = "check" ->
                LET r == checkProgramAccessible(s.arg, fail)
                IN IF r # "ok" THEN InitOutcome("error", r, s.arg, 0, att, qry)
                   ELSE RunPlan(rest, att, qry, fail)
           [] s.op = "attach" ->
                LET r == attachProgramToCgroup(s.arg, fail)
                IN IF r # "ok" THEN InitOutcome("error", r, s.arg, 0, att, qry)
                   ELSE RunPlan(rest, Append(att, s.arg), qry, fail)
           [] s.op = "query" ->
                IF queryProgram(s.arg, att, fail) <= 0
                THEN InitOutcome("abort", "abort", s.arg, 0, att, qry)
                ELSE RunPlan(rest, att, Append(qry, s.arg), fail)

\* lines 72-168
initPrograms(cg2_path, fail) ==
    LET rule == GateRule(cg2_path)
    IN IF rule # 0
       THEN InitOutcome("error", GateReason(rule), "", rule, <<>>, <<>>)
       ELSE RunPlan(AttachPlan, <<>>, <<>>, fail)

\* lines 188-198: the maps are initialised in order; the first failure returns
RECURSIVE initMaps(_, _, _)
initMaps(order, valid, fail) ==
    IF order = <<>> THEN [status |-> "ok", reason |-> <<"", "">>, valid |-> valid]
    ELSE IF fail = Step("mapinit", Head(order))
         THEN [status |-> "error", reason |-> <<"map init failed", Head(order)>>,
               valid |-> valid]
         ELSE initMaps(Tail(order), valid \cup {Head(order)}, fail)

\* lines 177-186; init() runs once, at process start
init(cg2_path, fail) ==
    /\ initStatus = "none"
    /\ LET p == initPrograms(cg2_path, fail)
           m == initMaps(MapInitOrder, {}, fail)
       IN /\ initPath' = cg2_path
          /\ attached' = p.attached
          /\ queried' = p.queried
          /\ IF p.status # "ok"
             THEN /\ initStatus' = p.status
                  /\ initReason' = p.reason
                  /\ validMaps' = {}
             ELSE /\ initStatus' = m.status
                  /\ initReason' = m.reason
                  /\ validMaps' = m.valid
    /\ UNCHANGED <<factVars, envVars, callVars>>

(***************************************************************************)
(* Sockets and identities the callers pass in.                             *)
(***************************************************************************)
\* What the kernel answers for a file descriptor: SO_DOMAIN, SO_PROTOCOL and the
\* socket cookie.  Descriptor -1 is not a socket: both getsockopt calls and
\* getSocketCookie fail with EBADF.  Cookie 0 is "no cookie".
ClosedFd == -1
SockFds == {ClosedFd} \cup (3..7)
SockInfo(fd) ==
    CASE fd = 3 -> [family |-> AF_INET, proto |-> IPPROTO_TCP, cookie |-> 1]
      [] fd = 4 -> [family |-> AF_INET6, proto |-> IPPROTO_UDP, cookie |-> 2]
      [] fd = 5 -> [family |-> AF_INET6, proto |-> IPPROTO_TCP, cookie |-> 3]
      [] fd = 6 -> [family |-> AF_UNIX, proto |-> 0, cookie |-> 4]
      [] fd = 7 -> [family |-> AF_INET, proto |-> IPPROTO_ICMP, cookie |-> 5]
      [] OTHER -> [family |-> 0, proto |-> 0, cookie |-> 0]
getSocketCookie(fd) == SockInfo(fd).cookie
Cookies == {SockInfo(fd).cookie : fd \in SockFds} \ {0}

APP_A == 10000 + 123
APP_B == 10000 + 456
\* the same application as APP_A, run by the secondary user 1
APP_A_USER1 == PER_USER_RANGE + APP_A
SYSTEM_USER1 == PER_USER_RANGE + AID_SYSTEM
Tags == {1, 2}

UidTagValue(uid, tag) == [uid |-> uid, tag |-> tag]

(***************************************************************************)
(* Privilege delegation gate, lines 200-209.                               *)
(***************************************************************************)
HasBit(value, bit) == (value \div bit) % 2 = 1

\* hasUpdateDeviceStatsPermission that looks the raw uid up, not the appId
hasUpdateDeviceStatsPermission_RawUid(permissionMap, uid) ==
    \/ /\ uid \in DOMAIN permissionMap
       /\ HasBit(permissionMap[uid], BPF_PERMISSION_UPDATE_DEVICE_STATS)
    \/ uid = AID_ROOT \/ uid = AID_SYSTEM \/ uid = AID_DNS

hasUpdateDeviceStatsPermission(permissionMap, uid) ==
    LET appId == uid % PER_USER_RANGE
    IN \/ /\ appId \in DOMAIN permissionMap
          /\ HasBit(permissionMap[appId], BPF_PERMISSION_UPDATE_DEVICE_STATS)
       \/ appId = AID_ROOT \/ appId = AID_SYSTEM \/ appId = AID_DNS

(***************************************************************************)
(* tagSocket, lines 211-315, in three steps: the checks up to the          *)
(* configuration read, the scan of the selected stats map, and the quota   *)
(* comparison with the map write.  Other callers and the external writers  *)
(* of the stats, configuration and permission maps may run in between.     *)
(***************************************************************************)
Idle == [pc |-> "idle", sockFd |-> 0, tag |-> 0, chargeUid |-> 0, realUid |-> 0,
         sock_cookie |-> 0, sel |-> 0]

NoCall == [op |-> "none", ret |-> 0, call |-> Idle]

InFlight == {t \in Threads : th[t].pc # "idle"}

\* tagSocketChecks that asks for the permission of self-charging callers too
tagSocketChecks_AlwaysAsk(valid, permissionMap, fd, chargeUid, realUid) ==
    IF "mCookieTagMap" \notin valid THEN -EPERM
    ELSE IF ~hasUpdateDeviceStatsPermission(permissionMap, realUid) THEN -EPERM
    ELSE IF chargeUid = AID_CLAT THEN -EPERM
    ELSE IF fd = ClosedFd THEN -EBADF
    ELSE IF SockInfo(fd).family # AF_INET /\ SockInfo(fd).family # AF_INET6
    THEN -EAFNOSUPPORT
    ELSE IF SockInfo(fd).proto # IPPROTO_UDP /\ SockInfo(fd).proto # IPPROTO_TCP
    THEN -EPROTONOSUPPORT
    ELSE IF getSocketCookie(fd) = 0 THEN -EBADF
    ELSE 0

\* tagSocketChecks that lets delegated callers charge AID_CLAT
tagSocketChecks_ClatForOthersOnly(valid, permissionMap, fd, chargeUid, realUid) ==
    IF "mCookieTagMap" \notin valid THEN -EPERM
    ELSE IF chargeUid # realUid /\ ~hasUpdateDeviceStatsPermission(permissionMap, realUid)
    THEN -EPERM
    ELSE IF chargeUid = AID_CLAT /\ chargeUid = realUid THEN -EPERM
    ELSE IF fd = ClosedFd THEN -EBADF
    ELSE IF SockInfo(fd).family # AF_INET /\ SockInfo(fd).family # AF_INET6
    THEN -EAFNOSUPPORT
    ELSE IF SockInfo(fd).proto # IPPROTO_UDP /\ SockInfo(fd).proto # IPPROTO_TCP
    THEN -EPROTONOSUPPORT
    ELSE IF getSocketCookie(fd) = 0 THEN -EBADF
    ELSE 0

\* tagSocketChecks without the protocol check
tagSocketChecks_AnyProtocol(valid, permissionMap, fd, chargeUid, realUid) ==
    IF "mCookieTagMap" \notin valid THEN -EPERM
    ELSE IF chargeUid # realUid /\ ~hasUpdateDeviceStatsPermission(permissionMap, realUid)
    THEN -EPERM
    ELSE IF chargeUid = AID_CLAT THEN -EPERM
    ELSE IF fd = ClosedFd THEN -EBADF
    ELSE IF SockInfo(fd).family # AF_INET /\ SockInfo(fd).family # AF_INET6
    THEN -EAFNOSUPPORT
    ELSE IF getSocketCookie(fd) = 0 THEN -EBADF
    ELSE 0

\* lines 212-255: 0, or the negated errno the call returns with
tagSocketChecks(valid, permissionMap, fd, chargeUid, realUid) ==
    IF "mCookieTagMap" \notin valid THEN -EPERM
    ELSE IF chargeUid # realUid /\ ~hasUpdateDeviceStatsPermission(permissionMap, realUid)
    THEN -EPERM
    ELSE IF chargeUid = AID_CLAT THEN -EPERM
    ELSE IF fd = ClosedFd THEN -EBADF
    ELSE IF SockInfo(fd).family # AF_INET /\ SockInfo(fd).family # AF_INET6
    THEN -EAFNOSUPPORT
    ELSE IF SockInfo(fd).proto # IPPROTO_UDP /\ SockInfo(fd).proto # IPPROTO_TCP
    THEN -EPROTONOSUPPORT
    ELSE IF getSocketCookie(fd) = 0 THEN -EBADF
    ELSE 0

\* readConfiguration that lets an unrecognised value through
readConfiguration_Guess(configurationMap) ==
    IF CURRENT_STATS_MAP_CONFIGURATION_KEY \notin DOMAIN configurationMap THEN -ENOENT
    ELSE 0

\* lines 275-284: 0, or the negated errno the call returns with
readConfiguration(configurationMap) ==
    IF CURRENT_STATS_MAP_CONFIGURATION_KEY \notin DOMAIN configurationMap THEN -ENOENT
    ELSE IF /\ configurationMap[CURRENT_STATS_MAP_CONFIGURATION_KEY] # SELECT_MAP_A
            /\ configurationMap[CURRENT_STATS_MAP_CONFIGURATION_KEY] # SELECT_MAP_B
    THEN -EINVAL
    ELSE 0

Return(t, op, call, ret) ==
    /\ last' = [op |-> op, ret |-> ret, call |-> [call EXCEPT !.pc = "idle"]]
    /\ th' = [th EXCEPT ![t] = Idle]

tagSocketEnter(t, fd, tag, chargeUid, realUid) ==
    /\ initStatus # "abort"
    /\ th[t].pc = "idle"
    /\ LET rc == tagSocketChecks(validMaps, mUidPermissionMap, fd, chargeUid, realUid)
           cfg == readConfiguration(mConfigurationMap)
           call == [Idle EXCEPT !.sockFd = fd, !.tag = tag, !.chargeUid = chargeUid,
                                !.realUid = realUid]
       IN IF rc # 0 THEN Return(t, "tag", call, rc) /\ UNCHANGED maxInflight
          ELSE IF cfg # 0
          THEN /\ Return(t, "tag", [call EXCEPT !.sock_cookie = getSocketCookie(fd)], cfg)
               /\ UNCHANGED maxInflight
          ELSE /\ th' = [th EXCEPT ![t] =
                           [call EXCEPT !.pc = "scan",
                                        !.sock_cookie = getSocketCookie(fd),
                                        !.sel = mConfigurationMap[
                                                    CURRENT_STATS_MAP_CONFIGURATION_KEY]]]
               /\ maxInflight' = IF Cardinality(InFlight \cup {t}) > maxInflight
                                 THEN Cardinality(InFlight \cup {t}) ELSE maxInflight
               /\ UNCHANGED last
    /\ UNCHANGED <<factVars, initVars, envVars, mCookieTagMap>>

\* lines 266-274: what the countUidStatsEntries callback leaves in the counters
MapTotal(m) ==
    LET RECURSIVE Sum(_)
        Sum(S) == IF S = {} THEN 0
                  ELSE LET u == CHOOSE x \in S : TRUE IN m[u] + Sum(S \ {u})
    IN Sum(DOMAIN m)
countUidStatsEntries(m, chargeUid) ==
    [perUid |-> IF chargeUid \in DOMAIN m THEN m[chargeUid] ELSE 0,
     total |-> MapTotal(m)]

\* currentMap that always scans map A
currentMap_AlwaysA(sel) == mStatsMapA

\* lines 286-287
currentMap(sel) == IF sel = SELECT_MAP_A THEN mStatsMapA ELSE mStatsMapB

\* QuotaExceeded that forgets the per-uid count
QuotaExceeded_TotalOnly(totalEntryCount, perUidEntryCount) ==
    totalEntryCount > mTotalUidStatsEntriesLimit

\* QuotaExceeded that blocks already at the limit
QuotaExceeded_AtLimit(totalEntryCount, perUidEntryCount) ==
    \/ totalEntryCount >= mTotalUidStatsEntriesLimit
    \/ perUidEntryCount >= mPerUidStatsEntriesLimit

\* lines 295-296: TRUE when the request is blocked
QuotaExceeded(totalEntryCount, perUidEntryCount) ==
    \/ totalEntryCount > mTotalUidStatsEntriesLimit
    \/ perUidEntryCount > mPerUidStatsEntriesLimit

\* lines 288-301: the scan of the selected map and the comparison of the two
\* local counters with the limits; iterate() may fail in the kernel (iterOk = FALSE)
tagSocketScan(t, iterOk) ==
    /\ th[t].pc = "scan"
    /\ LET c == countUidStatsEntries(currentMap(th[t].sel), th[t].chargeUid)
       IN IF ~iterOk THEN Return(t, "tag", th[t], -EIO)
          ELSE IF QuotaExceeded(c.total, c.perUid) THEN Return(t, "tag", th[t], -EMFILE)
          ELSE th' = [th EXCEPT ![t].pc = "write"] /\ UNCHANGED last
    /\ UNCHANGED <<factVars, initVars, envVars, mCookieTagMap, maxInflight>>

\* writeValue that keeps the value of a key that is already there
writeValue_KeepExisting(m, key, value) ==
    [k \in DOMAIN m \cup {key} |-> IF k \in DOMAIN m THEN m[k] ELSE value]

\* writeValue that replaces the whole map by the one entry
writeValue_DropOthers(m, key, value) == [k \in {key} |-> value]

\* BpfMap::writeValue with BPF_ANY: insert, or replace the value of the key
writeValue(m, key, value) ==
    [k \in DOMAIN m \cup {key} |-> IF k = key THEN value ELSE m[k]]

\* tagSocketWrite whose failed write has stored the entry all the same
tagSocketWrite_FailedWriteStores(t, writeOk) ==
    /\ th[t].pc = "write"
    /\ mCookieTagMap' = writeValue(mCookieTagMap, th[t].sock_cookie,
                                   UidTagValue(th[t].chargeUid, th[t].tag))
    /\ Return(t, "tag", th[t], IF writeOk THEN 0 ELSE -E2BIG)
    /\ UNCHANGED <<factVars, initVars, envVars, maxInflight>>

\* lines 302-314; writeValue() may fail in the kernel (writeOk = FALSE)
tagSocketWrite(t, writeOk) ==
    /\ th[t].pc = "write"
    /\ IF ~writeOk
       THEN Return(t, "tag", th[t], -E2BIG) /\ UNCHANGED mCookieTagMap
       ELSE /\ mCookieTagMap' = writeValue(mCookieTagMap, th[t].sock_cookie,
                                           UidTagValue(th[t].chargeUid, th[t].tag))
            /\ Return(t, "tag", th[t], 0)
    /\ UNCHANGED <<factVars, initVars, envVars, maxInflight>>

(***************************************************************************)
(* untagSocket, lines 317-329.                                             *)
(***************************************************************************)
\* BpfMap::deleteValue: removes the key; a key that is not there is not an error
deleteValue(m, key) == [k \in DOMAIN m \ {key} |-> m[k]]

\* untagSocket that reports a missing entry as an error
untagSocket_MissingIsError(t, fd) ==
    /\ initStatus # "abort"
    /\ th[t].pc = "idle"
    /\ LET call == [Idle EXCEPT !.sockFd = fd, !.sock_cookie = getSocketCookie(fd)]
       IN IF getSocketCookie(fd) = 0
          THEN Return(t, "untag", call, -EBADF) /\ UNCHANGED mCookieTagMap
          ELSE IF "mCookieTagMap" \notin validMaps
          THEN Return(t, "untag", call, -EPERM) /\ UNCHANGED mCookieTagMap
          ELSE IF getSocketCookie(fd) \notin DOMAIN mCookieTagMap
          THEN Return(t, "untag", call, -ENOENT) /\ UNCHANGED mCookieTagMap
          ELSE /\ mCookieTagMap' = deleteValue(mCookieTagMap, getSocketCookie(fd))
               /\ Return(t, "untag", call, 0)
    /\ UNCHANGED <<factVars, initVars, envVars, maxInflight>>

untagSocket(t, fd) ==
    /\ initStatus # "abort"
    /\ th[t].pc = "idle"
    /\ LET call == [Idle EXCEPT !.sockFd = fd, !.sock_cookie = getSocketCookie(fd)]
       IN IF getSocketCookie(fd) = 0
          THEN Return(t, "untag", call, -EBADF) /\ UNCHANGED mCookieTagMap
          ELSE IF "mCookieTagMap" \notin validMaps
          THEN Return(t, "untag", call, -EPERM) /\ UNCHANGED mCookieTagMap
          ELSE /\ mCookieTagMap' = deleteValue(mCookieTagMap, getSocketCookie(fd))
               /\ Return(t, "untag", call, 0)
    /\ UNCHANGED <<factVars, initVars, envVars, maxInflight>>

(***************************************************************************)
(* External writers: the kernel-side program that fills the live stats map,*)
(* the rotation process that swaps and clears the stats maps, and the      *)
(* system server that maintains the permission map.                        *)
(***************************************************************************)
\* the kernel program sets the number of entries of one uid in the live map
KernelCountStats(uid, n) ==
    /\ readConfiguration(mConfigurationMap) = 0
    /\ LET new == [currentMap(mConfigurationMap[CURRENT_STATS_MAP_CONFIGURATION_KEY])
                       EXCEPT ![uid] = n]
       IN /\ MapTotal(new) <= STATS_MAP_SIZE
          /\ IF mConfigurationMap[CURRENT_STATS_MAP_CONFIGURATION_KEY] = SELECT_MAP_A
             THEN mStatsMapA' = new /\ UNCHANGED mStatsMapB
             ELSE mStatsMapB' = new /\ UNCHANGED mStatsMapA
    /\ UNCHANGED <<factVars, initVars, callVars, mConfigurationMap, mUidPermissionMap>>

\* the rotation process writes the configuration cell
SetConfiguration(v) ==
    /\ CURRENT_STATS_MAP_CONFIGURATION_KEY \in DOMAIN mConfigurationMap
    /\ mConfigurationMap' = [mConfigurationMap EXCEPT
                                ![CURRENT_STATS_MAP_CONFIGURATION_KEY] = v]
    /\ mConfigurationMap' # mConfigurationMap
    /\ UNCHANGED <<factVars, initVars, callVars, mStatsMapA, mStatsMapB, mUidPermissionMap>>

\* the rotation process clears the stats map that is not live
ClearStats ==
    /\ readConfiguration(mConfigurationMap) = 0
    /\ IF mConfigurationMap[CURRENT_STATS_MAP_CONFIGURATION_KEY] = SELECT_MAP_A
       THEN mStatsMapB' = [u \in DOMAIN mStatsMapB |-> 0] /\ UNCHANGED mStatsMapA
       ELSE mStatsMapA' = [u \in DOMAIN mStatsMapA |-> 0] /\ UNCHANGED mStatsMapB
    /\ UNCHANGED <<factVars, initVars, callVars, mConfigurationMap, mUidPermissionMap>>

\* the system server grants or revokes permission bits of an application
SetPermission(appId, bits) ==
    /\ mUidPermissionMap' = writeValue(mUidPermissionMap, appId, bits)
    /\ mUidPermissionMap' # mUidPermissionMap
    /\ UNCHANGED <<factVars, initVars, callVars, mStatsMapA, mStatsMapB, mConfigurationMap>>

(***************************************************************************)
(* Specifications.                                                         *)
(***************************************************************************)
SdkLevels == {SDK_S, SDK_T, SDK_U, SDK_V}
\* every kernel floor the code tests, the version just below it, and two others
KernelFloors == {KVER(4, 9, 0), KVER(4, 14, 0), KVER(4, 19, 0), KVER(5, 8, 0),
                 KVER(5, 16, 0), KVER(6, 2, 0)}
KernelVersions == KernelFloors \cup {k - 1 : k \in KernelFloors}
                  \cup {KVER(4, 10, 0), KVER(6, 6, 0)}

StatsUids == {APP_A, APP_B}
EmptyStats == [u \in StatsUids |-> 0]
EmptyMap == [k \in {} |-> 0]
ConfigCell(v) == [k \in {CURRENT_STATS_MAP_CONFIGURATION_KEY} |-> v]

\* BpfHandler::BpfHandler(), lines 170-172
DefaultLimits == <<PER_UID_STATS_ENTRIES_LIMIT, TOTAL_UID_STATS_ENTRIES_LIMIT>>
\* BpfHandler::BpfHandler(perUidLimit, totalLimit), lines 174-175
TestLimits == <<TestPerUidLimit, TestTotalLimit>>

\* The state after construction on a device with the given facts.
Constructed(sdks, kvers, bits, limits, configs) ==
    /\ sdk \in sdks
    /\ kver \in kvers
    /\ kernel32 \in bits
    /\ user32 \in bits
    /\ \E l \in limits : mPerUidStatsEntriesLimit = l[1] /\ mTotalUidStatsEntriesLimit = l[2]
    /\ initStatus = "none"
    /\ initReason = <<"", "">>
    /\ initPath = NullPath
    /\ attached = <<>>
    /\ queried = <<>>
    /\ validMaps = {}
    /\ mCookieTagMap = EmptyMap
    /\ mStatsMapA = EmptyStats
    /\ mStatsMapB = EmptyStats
    /\ mConfigurationMap \in configs
    /\ mUidPermissionMap = EmptyMap
    /\ th = [t \in Threads |-> Idle]
    /\ last = NoCall
    /\ maxInflight = 0

\* --- start-up on every device: feature matrix and hook attachment ---------
InitBoot == Constructed(SdkLevels, KernelVersions, BOOLEAN, {DefaultLimits},
                        {ConfigCell(SELECT_MAP_A)})
NextBoot == \E cg2_path \in Paths, fail \in FailPoints : init(cg2_path, fail)
SpecBoot == InitBoot /\ [][NextBoot]_vars

\* --- the handler's life: init() on any path with any failure, then tag and
\* --- untag calls while the kernel counts and the stats maps rotate ---------
CallFds == {3, 4, ClosedFd}
StatsLevels == {0, TestPerUidLimit, TestPerUidLimit + 1}
ConfigValues == {SELECT_MAP_A, SELECT_MAP_B, SELECT_MAP_B + 1}
Init == Constructed({SDK_V}, {KVER(5, 8, 0)}, {FALSE}, {TestLimits},
                    {ConfigCell(SELECT_MAP_A)})
Next ==
    \/ \E cg2_path \in Paths, fail \in FailPoints : init(cg2_path, fail)
    \/ \E fd \in CallFds, tag \in Tags : tagSocketEnter(1, fd, tag, APP_A, APP_A)
    \/ \E iterOk \in BOOLEAN : tagSocketScan(1, iterOk)
    \/ \E writeOk \in BOOLEAN : tagSocketWrite(1, writeOk)
    \/ \E fd \in CallFds : untagSocket(1, fd)
    \/ \E n \in StatsLevels : KernelCountStats(APP_A, n)
    \/ \E v \in ConfigValues : SetConfiguration(v)
    \/ ClearStats
Spec == Init /\ [][Next]_vars

\* --- two callers inside tagSocket at once on three sockets ----------------
RaceFds == {3, 4, 5}
NextRace ==
    \/ init(CanonicalPath, NoFail)
    \/ \E t \in Threads, fd \in RaceFds : tagSocketEnter(t, fd, 1, APP_A, APP_A)
    \/ \E t \in Threads : tagSocketScan(t, TRUE)
    \/ \E t \in Threads : tagSocketWrite(t, TRUE)
    \/ \E t \in Threads, fd \in RaceFds : untagSocket(t, fd)
    \/ \E n \in StatsLevels : KernelCountStats(APP_A, n)
    \/ \E v \in {SELECT_MAP_A, SELECT_MAP_B} : SetConfiguration(v)
    \/ ClearStats
SpecRace == Init /\ [][NextRace]_vars

\* --- the quota boundary, with the limits of either constructor ------------
\* entry counts around the per-uid limit (for the charged uid) and counts that
\* bring the total to its limit and one above (for the other uid)
QuotaLevels(uid) ==
    IF uid = APP_A
    THEN {0, mPerUidStatsEntriesLimit - 1, mPerUidStatsEntriesLimit,
          mPerUidStatsEntriesLimit + 1}
    ELSE {0, mTotalUidStatsEntriesLimit - mPerUidStatsEntriesLimit,
          mTotalUidStatsEntriesLimit - mPerUidStatsEntriesLimit + 1}
InitQuota == Constructed({SDK_V}, {KVER(5, 8, 0)}, {FALSE}, {DefaultLimits, TestLimits},
                         {ConfigCell(SELECT_MAP_A), ConfigCell(SELECT_MAP_B)})
NextQuota ==
    \/ init(CanonicalPath, NoFail)
    \/ \E fd \in {3, 4} : tagSocketEnter(1, fd, 1, APP_A, APP_A)
    \/ \E iterOk \in BOOLEAN : tagSocketScan(1, iterOk)
    \/ \E writeOk \in BOOLEAN : tagSocketWrite(1, writeOk)
    \/ \E fd \in {3, 4} : untagSocket(1, fd)
    \/ \E uid \in StatsUids : \E n \in QuotaLevels(uid) : KernelCountStats(uid, n)
SpecQuota == InitQuota /\ [][NextQuota]_vars

\* --- the delegation gate: one socket, every kind of caller, a changing
\* --- permission map --------------------------------------------------------
GateFds == {3, ClosedFd}
GateChargeUids == {APP_A, APP_B, AID_CLAT}
GateRealUids == {AID_ROOT, AID_SYSTEM, AID_DNS, AID_CLAT, APP_A, APP_A_USER1, APP_B,
                 SYSTEM_USER1}
GateAppIds == {APP_A, AID_CLAT}
PermissionBits == {BPF_PERMISSION_INTERNET,
                   BPF_PERMISSION_INTERNET + BPF_PERMISSION_UPDATE_DEVICE_STATS}
InitGate == Constructed({SDK_U}, {KVER(5, 16, 0) - 1}, {FALSE}, {TestLimits},
                        {ConfigCell(SELECT_MAP_A)})
NextGate ==
    \/ \E fail \in {NoFail, Step("mapinit", "mCookieTagMap")} : init(CanonicalPath, fail)
    \/ \E fd \in GateFds, c \in GateChargeUids, r \in GateRealUids :
          tagSocketEnter(1, fd, 1, c, r)
    \/ tagSocketScan(1, TRUE)
    \/ tagSocketWrite(1, TRUE)
    \/ untagSocket(1, 3)
    \/ \E a \in GateAppIds, b \in PermissionBits : SetPermission(a, b)
SpecGate == InitGate /\ [][NextGate]_vars

\* --- the configuration cell: unreadable, either selector, or an unknown value
InitConfig == Constructed({SDK_V}, {KVER(5, 8, 0)}, {FALSE}, {TestLimits},
                          {ConfigCell(v) : v \in ConfigValues} \cup {EmptyMap})
NextConfig ==
    \/ init(CanonicalPath, NoFail)
    \/ \E fd \in CallFds, tag \in Tags : tagSocketEnter(1, fd, tag, APP_A, APP_A)
    \/ \E iterOk \in BOOLEAN : tagSocketScan(1, iterOk)
    \/ \E writeOk \in BOOLEAN : tagSocketWrite(1, writeOk)
    \/ \E fd \in CallFds : untagSocket(1, fd)
    \/ \E n \in StatsLevels : KernelCountStats(APP_A, n)
    \/ \E v \in ConfigValues : SetConfiguration(v)
    \/ ClearStats
SpecConfig == InitConfig /\ [][NextConfig]_vars

\* --- the margin between the total limit and the capacity of a stats map, for
\* --- handlers built by either constructor -----------------------------------
\* BpfHandler(perUidLimit, totalLimit) called with the capacity as total limit
FullLimits == <<PER_UID_STATS_ENTRIES_LIMIT, STATS_MAP_SIZE>>
\* entry counts that bring the live map to the default total limit, into the
\* last 100 entries of the map, and to its capacity
MarginLevels(uid) ==
    IF uid = APP_A
    THEN {0, mPerUidStatsEntriesLimit}
    ELSE {0, TOTAL_UID_STATS_ENTRIES_LIMIT - PER_UID_STATS_ENTRIES_LIMIT,
          STATS_MAP_SIZE - PER_UID_STATS_ENTRIES_LIMIT - 99,
          STATS_MAP_SIZE - PER_UID_STATS_ENTRIES_LIMIT}
InitMargin == Constructed({SDK_V}, {KVER(5, 8, 0)}, {FALSE},
                          {DefaultLimits, TestLimits, FullLimits},
                          {ConfigCell(SELECT_MAP_A), ConfigCell(SELECT_MAP_B)})
NextMargin ==
    \/ init(CanonicalPath, NoFail)
    \/ \E fd \in {3, 4} : tagSocketEnter(1, fd, 1, APP_A, APP_A)
    \/ \E iterOk \in BOOLEAN : tagSocketScan(1, iterOk)
    \/ \E writeOk \in BOOLEAN : tagSocketWrite(1, writeOk)
    \/ \E fd \in {3, 4} : untagSocket(1, fd)
    \/ \E uid \in StatsUids : \E n \in MarginLevels(uid) : KernelCountStats(uid, n)
SpecMargin == InitMargin /\ [][NextMargin]_vars

\* --- two callers tagging the same sockets with different tags at once -------
UpsertFds == {3, 4}
NextUpsert ==
    \/ init(CanonicalPath, NoFail)
    \/ \E t \in Threads, fd \in UpsertFds, tag \in Tags :
          tagSocketEnter(t, fd, tag, APP_A, APP_A)
    \/ \E t \in Threads : tagSocketScan(t, TRUE)
    \/ \E t \in Threads, writeOk \in BOOLEAN : tagSocketWrite(t, writeOk)
    \/ \E t \in Threads, fd \in UpsertFds : untagSocket(t, fd)
SpecUpsert == Init /\ [][NextUpsert]_vars

\* --- sockets of every family and protocol ---------------------------------
NextFamily ==
    \/ \E fail \in {NoFail, Step("mapinit", "mCookieTagMap")} : init(CanonicalPath, fail)
    \/ \E fd \in SockFds, c \in {APP_A, APP_B} : tagSocketEnter(1, fd, 1, c, APP_A)
    \/ \E iterOk \in BOOLEAN : tagSocketScan(1, iterOk)
    \/ \E writeOk \in BOOLEAN : tagSocketWrite(1, writeOk)
    \/ \E fd \in SockFds : untagSocket(1, fd)
    \/ \E b \in PermissionBits : SetPermission(APP_A, b)
SpecFamily == Init /\ [][NextFamily]_vars

\* --- the same device restarted on newer and newer kernels -------------------
\* the device restarts on a newer kernel: the handler is constructed anew
KernelUpgrade(k) ==
    /\ k > kver
    /\ kver' = k
    /\ initStatus' = "none"
    /\ initReason' = <<"", "">>
    /\ initPath' = NullPath
    /\ attached' = <<>>
    /\ queried' = <<>>
    /\ validMaps' = {}
    /\ mCookieTagMap' = EmptyMap
    /\ th' = [t \in Threads |-> Idle]
    /\ last' = NoCall
    /\ maxInflight' = 0
    /\ UNCHANGED <<sdk, kernel32, user32, mPerUidStatsEntriesLimit,
                   mTotalUidStatsEntriesLimit, envVars>>
InitUpgrade == Constructed(SdkLevels, {KVER(4, 9, 0) - 1}, BOOLEAN, {DefaultLimits},
                           {ConfigCell(SELECT_MAP_A)})
NextUpgrade ==
    \/ \E cg2_path \in Paths : init(cg2_path, NoFail)
    \/ \E k \in KernelVersions : KernelUpgrade(k)
SpecUpgrade == InitUpgrade /\ [][NextUpgrade]_vars

(***************************************************************************)
(* Properties of start-up (checked under SpecBoot).                        *)
(***************************************************************************)
Range(seq) == {seq[i] : i \in 1..Len(seq)}
Min(S) == CHOOSE x \in S : \A y \in S : x <= y
GateReasons == {GateReason(n) : n \in 1..8}
InitRan == initStatus # "none"
PassedGates == InitRan /\ initReason[1] \notin GateReasons

\* The eight rules of the feature matrix as the specification words them.
RuleFails(n, path) ==
    CASE n = 1 -> path = NullPath
      [] n = 2 -> sdk < SDK_T
      [] n = 3 -> kver < KVER(4, 9, 0)
      [] n = 4 -> sdk >= SDK_U /\ kver < KVER(4, 14, 0)
      [] n = 5 -> sdk >= SDK_V /\ kver < KVER(4, 19, 0)
      [] n = 6 -> sdk >= SDK_V /\ kernel32 /\ kver >= KVER(5, 16, 0)
      [] n = 7 -> user32 /\ kver >= KVER(6, 2, 0)
      [] n = 8 -> sdk >= SDK_U /\ path # CanonicalPath
FailingRules == {n \in 1..8 : RuleFails(n, initPath)}

\* C7: after init(), if any of the eight rules fails the result is the error of
\* the lowest-numbered failing rule and nothing was attached; init() goes on to
\* the cgroup open and the attachment exactly when no rule fails.
C7_FirstFailingRuleWins ==
    InitRan =>
        IF FailingRules # {}
        THEN /\ initStatus = "error"
             /\ initReason = <<GateReason(Min(FailingRules)), "">>
             /\ attached = <<>>
             /\ validMaps = {}
        ELSE PassedGates
C7_Witness ==
    /\ InitRan
    /\ FailingRules = {4, 8}
    /\ initReason = <<GateReason(4), "">>

OptionalFloor(hook) ==
    CASE hook = "sock_create" -> KVER(4, 14, 0)
      [] hook \in {"bind4", "bind6"} -> KVER(4, 19, 0)
      [] hook = "setsockopt" -> KVER(5, 8, 0)
OptionalHooks == {"sock_create", "bind4", "bind6", "setsockopt"}

\* C8: whatever the platform tier, an init() that returns ok has attached each
\* optional hook exactly when the kernel is at or above that hook's floor, no
\* init() attaches an optional hook below its floor, and on tier T with kernel
\* 4.9.0 the gates pass for every non-null path with no optional hook attached.
C8_OptionalHooksByKernel ==
    /\ initStatus = "ok" =>
          \A h \in OptionalHooks : (h \in Range(attached)) <=> (kver >= OptionalFloor(h))
    /\ \A h \in OptionalHooks : h \in Range(attached) => kver >= OptionalFloor(h)
    /\ (InitRan /\ sdk = SDK_T /\ kver = KVER(4, 9, 0) /\ initPath # NullPath) =>
          PassedGates /\ Range(attached) \cap OptionalHooks = {}
C8_Witness ==
    /\ initStatus = "ok"
    /\ sdk = SDK_T
    /\ kver = KVER(4, 19, 0) - 1
    /\ attached = <<"egress", "ingress", "sock_create">>

MandatoryHooks == {"egress", "ingress"}

\* C10 as stated: init() returns ok only with both mandatory hooks attached and
\* both verified by a query.
C10_Original ==
    initStatus = "ok" =>
        /\ MandatoryHooks \subseteq Range(attached)
        /\ MandatoryHooks \subseteq Range(queried)
\* C10 amended: init() returns ok only with both mandatory hooks attached; they
\* are verified by a query exactly on kernels >= 4.19.0, where a count <= 0
\* aborts; a failed mandatory attach makes init() return an error.
C10_MandatoryHooks ==
    /\ initStatus = "ok" =>
          /\ MandatoryHooks \subseteq Range(attached)
          /\ (kver >= KVER(4, 19, 0)) <=> (MandatoryHooks \subseteq Range(queried))
          /\ kver < KVER(4, 19, 0) => queried = <<>>
    /\ (PassedGates /\ ~(MandatoryHooks \subseteq Range(attached))) =>
          initStatus = "error" /\ validMaps = {}
    /\ (PassedGates /\ kver >= KVER(4, 19, 0)
           /\ ~(MandatoryHooks \subseteq Range(queried))) => initStatus \in {"error", "abort"}
C10_Witness ==
    /\ initStatus = "ok"
    /\ kver >= KVER(4, 19, 0)
    /\ MandatoryHooks \subseteq Range(queried)

\* hooks that init() must have verified by a query on the running kernel
VerifiedOptional ==
    (IF kver >= KVER(4, 19, 0) THEN {"bind4", "bind6"} ELSE {})
    \cup (IF kver >= KVER(5, 8, 0) THEN {"setsockopt"} ELSE {})
\* the query of a hook is part of the attach sequence on the running kernel
PlanQueries(hook) == \E i \in 1..Len(AttachPlan) : AttachPlan[i] = Step("query", hook)

\* C11: an init() that returns ok on a kernel >= 4.19.0 has attached bind4 and
\* bind6 and has got a positive count from the query of each, and on a kernel
\* >= 5.8.0 likewise for setsockopt; a query that reports a count <= 0 for a
\* hook that was attached makes init() abort: it returns neither ok nor an
\* error, and every abort comes from such a query.
C11_OptionalHooksVerified ==
    /\ initStatus = "ok" =>
          /\ VerifiedOptional \subseteq Range(attached)
          /\ VerifiedOptional \subseteq Range(queried)
    /\ \A h \in Range(queried) :
          h \in Range(attached) /\ queryProgram(h, attached, NoFail) > 0
    /\ initStatus = "abort" <=> (InitRan /\ initReason[1] = "abort")
    /\ initStatus = "abort" =>
          /\ initReason[2] \in Range(attached)
          /\ initReason[2] \notin Range(queried)
          /\ validMaps = {}
    /\ \A p \in Paths \ {NullPath}, h \in Hooks :
          (GateRule(p) = 0 /\ PlanQueries(h)) =>
             /\ initPrograms(p, Step("query", h)).status = "abort"
             /\ h \in Range(initPrograms(p, Step("query", h)).attached)
C11_Witness ==
    /\ initStatus = "ok"
    /\ kver = KVER(5, 8, 0)
    /\ {"bind4", "bind6", "setsockopt"} \subseteq Range(queried)

\* the hook points in the order of lines 128-163, and those of them that the
\* running kernel enables
HookOrder == <<"egress", "ingress", "sock_create", "bind4", "bind6", "setsockopt">>
HookEnabled(h) == h \in MandatoryHooks \/ kver >= OptionalFloor(h)
RECURSIVE Enabled(_)
Enabled(order) ==
    IF order = <<>> THEN <<>>
    ELSE (IF HookEnabled(Head(order)) THEN <<Head(order)>> ELSE <<>>)
         \o Enabled(Tail(order))
EnabledHooks == Enabled(HookOrder)
IsPrefix(a, b) == Len(a) <= Len(b) /\ a = SubSeq(b, 1, Len(a))
AttachErrors == {"Failed to get program from", "Program attach failed"}
\* init() failed before the first attach: at a gate, the open or an xt check
FailedBeforeAttach ==
    \/ initReason[1] \in GateReasons
    \/ initReason[1] = "Open the cgroup directory failed"
    \/ initReason[1] = "Failed to get program from" /\ initReason[2] \in XtProgs
\* init() failed at the attach of a hook
FailedAtAttach == initReason[1] \in AttachErrors /\ initReason[2] \in Hooks
\* the failure points that stop initPrograms with an error on the running kernel
ErrorPoints ==
    {f \in FailPoints :
        \/ f.op = "open"
        \/ f.op = "retrieve" /\ f.arg \in XtProgs
        \/ f.op \in {"retrieve", "attach"} /\ f.arg \in Range(EnabledHooks)}

\* C18: init() attaches nothing unless the eight gates passed, the cgroup
\* directory opened and the four xt programs were accessible; the hooks
\* attached are always a prefix of egress, ingress, sock_create, bind4, bind6,
\* setsockopt restricted to the hooks the kernel enables; the hook whose
\* attach fails is the next one of that order; after the first failing gate,
\* open, accessibility check or attach init() returns an error with no later
\* hook attached, no map initialised and the earlier hooks still attached.
C18_OrderedFailFast ==
    /\ IsPrefix(attached, EnabledHooks)
    /\ attached # <<>> => (PassedGates /\ ~FailedBeforeAttach)
    /\ (InitRan /\ FailedBeforeAttach) =>
          initStatus = "error" /\ attached = <<>> /\ validMaps = {}
    /\ (InitRan /\ FailedAtAttach) =>
          /\ initStatus = "error"
          /\ validMaps = {}
          /\ Len(attached) < Len(EnabledHooks)
          /\ initReason[2] = EnabledHooks[Len(attached) + 1]
    /\ initStatus = "ok" => attached = EnabledHooks
    /\ validMaps # {} => attached = EnabledHooks
    /\ \A p \in Paths, f \in ErrorPoints :
          GateRule(p) = 0 =>
             /\ initPrograms(p, f).status = "error"
             /\ IsPrefix(initPrograms(p, f).attached, EnabledHooks)
             /\ f.arg \in Hooks => f.arg \notin Range(initPrograms(p, f).attached)
             /\ f.arg \notin Hooks => initPrograms(p, f).attached = <<>>
C18_Witness ==
    /\ initStatus = "error"
    /\ initReason = <<"Program attach failed", "bind6">>
    /\ attached = <<"egress", "ingress", "sock_create", "bind4">>
    /\ validMaps = {}

(***************************************************************************)
(* Properties of the delegation gate (checked under SpecGate).             *)
(***************************************************************************)
MapUsable == "mCookieTagMap" \in validMaps
\* every permission map over the application ids of the gate
PermissionTables ==
    UNION {[D -> PermissionBits] : D \in SUBSET GateAppIds}

\* C4: a tagSocket call that charges the caller itself gets the same verdict
\* from the checks whatever the permission map holds, is never refused with
\* -EPERM unless the map is unusable or the uid is AID_CLAT, and on a valid
\* socket goes on to the quota scan carrying its own uid and tag.
C4_SelfChargeIgnoresPermissions ==
    /\ [](\A fd \in GateFds, c \in GateChargeUids, p \in PermissionTables :
            /\ tagSocketChecks(validMaps, p, fd, c, c)
                  = tagSocketChecks(validMaps, mUidPermissionMap, fd, c, c)
            /\ (MapUsable /\ c # AID_CLAT) => tagSocketChecks(validMaps, p, fd, c, c) # -EPERM)
    /\ [][\A fd \in GateFds, c \in GateChargeUids :
            (tagSocketEnter(1, fd, 1, c, c) /\ MapUsable /\ c # AID_CLAT /\ fd = 3) =>
               /\ th'[1].pc = "scan"
               /\ th'[1].chargeUid = c /\ th'[1].tag = 1
               /\ th'[1].sock_cookie = getSocketCookie(fd)]_vars
C4_Witness ==
    /\ th[1].pc = "scan"
    /\ th[1].chargeUid = APP_B /\ th[1].realUid = APP_B
    /\ APP_B \notin DOMAIN mUidPermissionMap
    /\ APP_A \in DOMAIN mUidPermissionMap

\* the delegation rule as the specification words it
Delegated(permissionMap, realUid) ==
    LET appId == realUid % PER_USER_RANGE
    IN \/ /\ appId \in DOMAIN permissionMap
          /\ (permissionMap[appId] \div BPF_PERMISSION_UPDATE_DEVICE_STATS) % 2 = 1
       \/ appId \in {AID_ROOT, AID_SYSTEM, AID_DNS}

\* C5: with a usable map, a tagSocket call that charges another uid passes the
\* permission check exactly when the caller's appId holds UPDATE_DEVICE_STATS or
\* is root, system or dns; otherwise it returns -EPERM and the attribution map
\* is unchanged; callers with the same appId get the same verdict.
C5_DelegationGate ==
    /\ [](MapUsable =>
            \A fd \in GateFds, c \in GateChargeUids \ {AID_CLAT} : \A r \in GateRealUids \ {c} :
               /\ (tagSocketChecks(validMaps, mUidPermissionMap, fd, c, r) = -EPERM)
                     <=> ~Delegated(mUidPermissionMap, r)
               /\ \A r2 \in GateRealUids \ {c} :
                     r2 % PER_USER_RANGE = r % PER_USER_RANGE =>
                        tagSocketChecks(validMaps, mUidPermissionMap, fd, c, r2)
                           = tagSocketChecks(validMaps, mUidPermissionMap, fd, c, r))
    /\ [][\A fd \in GateFds, c \in GateChargeUids, r \in GateRealUids :
            (tagSocketEnter(1, fd, 1, c, r) /\ c # r /\ MapUsable) =>
               /\ ~Delegated(mUidPermissionMap, r) =>
                     /\ th'[1].pc = "idle" /\ last'.ret = -EPERM
                     /\ last'.call.realUid = r /\ last'.call.chargeUid = c
                     /\ mCookieTagMap' = mCookieTagMap
               /\ (Delegated(mUidPermissionMap, r) /\ c # AID_CLAT /\ fd = 3) =>
                     th'[1].pc = "scan"]_vars
C5_Witness ==
    /\ th[1].pc = "scan"
    /\ th[1].realUid = APP_A_USER1 /\ th[1].chargeUid = APP_B
    /\ mUidPermissionMap[APP_A] = BPF_PERMISSION_INTERNET + BPF_PERMISSION_UPDATE_DEVICE_STATS

\* C6: every tagSocket call that charges AID_CLAT returns -EPERM, whoever the
\* caller and whatever the socket, and no attribution entry written by
\* tagSocket carries uid AID_CLAT.
C6_ReservedIdentity ==
    /\ \A fd \in GateFds, r \in GateRealUids :
          tagSocketChecks(validMaps, mUidPermissionMap, fd, AID_CLAT, r) = -EPERM
    /\ (last.op = "tag" /\ last.call.chargeUid = AID_CLAT) => last.ret = -EPERM
    /\ \A t \in Threads : th[t].pc # "idle" => th[t].chargeUid # AID_CLAT
    /\ \A k \in DOMAIN mCookieTagMap : mCookieTagMap[k].uid # AID_CLAT
C6_Witness ==
    /\ MapUsable
    /\ last.op = "tag" /\ last.ret = -EPERM
    /\ last.call.chargeUid = AID_CLAT /\ last.call.realUid = AID_CLAT
    /\ AID_CLAT \in DOMAIN mUidPermissionMap
    /\ HasBit(mUidPermissionMap[AID_CLAT], BPF_PERMISSION_UPDATE_DEVICE_STATS)

(***************************************************************************)
(* Properties of the quota (checked under SpecRace and SpecQuota).         *)
(***************************************************************************)
EntriesOf(uid) == Cardinality({k \in DOMAIN mCookieTagMap : mCookieTagMap[k].uid = uid})
TotalEntries == Cardinality(DOMAIN mCookieTagMap)
\* what a scan by thread t would count in this state
ScanCounts(t) == countUidStatsEntries(currentMap(th[t].sel), th[t].chargeUid)

\* C1 as stated: after a successful tagSocket the attribution map holds at most
\* perUidLimit + N entries of any uid and at most totalLimit + N entries in
\* all, N being the largest number of tagSocket calls in flight at once.
C1_Original ==
    (last.op = "tag" /\ last.ret = 0) =>
        /\ \A uid \in StatsUids : EntriesOf(uid) <= mPerUidStatsEntriesLimit + maxInflight
        /\ TotalEntries <= mTotalUidStatsEntriesLimit + maxInflight
\* C1 amended: the limits bound what the call's scan of the selected counting
\* map found, not the attribution map: a tagSocket call goes on to its write
\* only if its scan counted at most perUidLimit entries of chargeUid and at
\* most totalLimit entries in all, and a call that returns 0 was so admitted.
C1_ScanWithinLimits ==
    [][\A t \in Threads :
          /\ (tagSocketScan(t, TRUE) /\ th'[t].pc = "write") =>
                /\ ScanCounts(t).perUid <= mPerUidStatsEntriesLimit
                /\ ScanCounts(t).total <= mTotalUidStatsEntriesLimit
          /\ (th[t].pc = "scan" /\ th'[t].pc = "idle") =>
                /\ last'.ret # 0
                /\ mCookieTagMap' = mCookieTagMap
          /\ (last' # last /\ last'.op = "tag" /\ last'.ret = 0 /\ th'[t] # th[t]) =>
                th[t].pc = "write"]_vars
C1_Witness ==
    /\ last.op = "tag" /\ last.ret = 0
    /\ maxInflight = 1
    /\ EntriesOf(APP_A) = mPerUidStatsEntriesLimit + maxInflight + 1

\* C3 as stated: a request whose charge uid has exactly perUidLimit entries in
\* the scanned counting map is denied with -EMFILE, one with perUidLimit - 1
\* is admitted, and likewise for the total.
C3_Original ==
    [][tagSocketScan(1, TRUE) =>
          /\ ScanCounts(1).perUid = mPerUidStatsEntriesLimit =>
                th'[1].pc = "idle" /\ last'.ret = -EMFILE
          /\ ScanCounts(1).total = mTotalUidStatsEntriesLimit =>
                th'[1].pc = "idle" /\ last'.ret = -EMFILE
          /\ (ScanCounts(1).perUid < mPerUidStatsEntriesLimit
                 /\ ScanCounts(1).total < mTotalUidStatsEntriesLimit) =>
                th'[1].pc = "write"]_vars
\* C3 amended: the boundary is strict on the other side: the request is denied
\* with -EMFILE, writing nothing, exactly when the scan counts more than
\* perUidLimit entries of the charge uid (501 for the limit 500) or more than
\* totalLimit entries in all; with exactly perUidLimit (500) and at most
\* totalLimit entries it is admitted and, its map write succeeding, returns 0
\* with the entry written.
C3_QuotaBoundary ==
    [][/\ tagSocketScan(1, TRUE) =>
             IF \/ ScanCounts(1).perUid >= mPerUidStatsEntriesLimit + 1
                \/ ScanCounts(1).total >= mTotalUidStatsEntriesLimit + 1
             THEN /\ th'[1].pc = "idle"
                  /\ last'.op = "tag" /\ last'.ret = -EMFILE
                  /\ mCookieTagMap' = mCookieTagMap
             ELSE th'[1].pc = "write" /\ last' = last
       /\ tagSocketWrite(1, TRUE) =>
             /\ last'.ret = 0
             /\ th[1].sock_cookie \in DOMAIN mCookieTagMap'
             /\ mCookieTagMap'[th[1].sock_cookie] = UidTagValue(th[1].chargeUid, th[1].tag)]_vars
C3_Witness ==
    /\ mPerUidStatsEntriesLimit = PER_UID_STATS_ENTRIES_LIMIT
    /\ last.op = "tag" /\ last.ret = 0
    /\ currentMap(last.call.sel)[APP_A] = PER_UID_STATS_ENTRIES_LIMIT
    /\ 1 \in DOMAIN mCookieTagMap

(***************************************************************************)
(* Properties of the configuration cell (checked under SpecConfig).        *)
(***************************************************************************)
Selectors == {SELECT_MAP_A, SELECT_MAP_B}
ConfigReadable == CURRENT_STATS_MAP_CONFIGURATION_KEY \in DOMAIN mConfigurationMap
ConfigKnown ==
    ConfigReadable /\ mConfigurationMap[CURRENT_STATS_MAP_CONFIGURATION_KEY] \in Selectors

\* C13: when the configuration cell cannot be read or holds a value other than
\* SELECT_MAP_A and SELECT_MAP_B, a tagSocket call returns an error at once
\* (-EINVAL for an unrecognised value when the earlier checks pass, the read's
\* error when the cell is unreadable), never reaches the scan of a counting
\* map and leaves the attribution map unchanged; a call that scans carries
\* one of the two selectors.
C13_UnknownConfigurationDenied ==
    /\ [](/\ ~ConfigKnown => readConfiguration(mConfigurationMap) < 0
          /\ (ConfigReadable /\ ~ConfigKnown) =>
                readConfiguration(mConfigurationMap) = -EINVAL
          /\ \A t \in Threads : th[t].pc \in {"scan", "write"} => th[t].sel \in Selectors)
    /\ [][\A fd \in CallFds, tag \in Tags :
            (tagSocketEnter(1, fd, tag, APP_A, APP_A) /\ ~ConfigKnown) =>
               /\ th'[1].pc = "idle"
               /\ last'.op = "tag" /\ last'.ret < 0
               /\ mCookieTagMap' = mCookieTagMap
               /\ (MapUsable /\ fd # ClosedFd) =>
                     last'.ret = (IF ConfigReadable THEN -EINVAL ELSE -ENOENT)]_vars
C13_Witness ==
    /\ MapUsable
    /\ ConfigReadable /\ ~ConfigKnown
    /\ last.op = "tag" /\ last.ret = -EINVAL /\ last.call.sockFd = 3
    /\ mCookieTagMap # EmptyMap

(***************************************************************************)
(* Properties of the reserved margin (checked under SpecMargin).           *)
(***************************************************************************)
ReservedMargin(total) ==
    /\ total < STATS_MAP_SIZE
    /\ (STATS_MAP_SIZE - total) * 10 >= STATS_MAP_SIZE
    /\ STATS_MAP_SIZE - total >= 100

\* C14: for a handler built by either constructor, the total limit that
\* tagSocket enforces is below the capacity STATS_MAP_SIZE by at least 10% of
\* the capacity and by at least 100 entries, so every request that tagSocket
\* admits found the scanned counting map with that margin left.
C14_ReservedMargin ==
    [][\A t \in Threads :
          (tagSocketScan(t, TRUE) /\ th'[t].pc = "write") =>
             /\ ReservedMargin(mTotalUidStatsEntriesLimit)
             /\ ReservedMargin(ScanCounts(t).total)]_vars

\* the counting map a selector names, and the selector of the live map
SelectedMap(sel) == IF sel = SELECT_MAP_A THEN mStatsMapA ELSE mStatsMapB
LiveSelector == mConfigurationMap[CURRENT_STATS_MAP_CONFIGURATION_KEY]
\* the verdict of the quota on one counting map for a charge uid
Blocked(m, uid) ==
    \/ MapTotal(m) > mTotalUidStatsEntriesLimit
    \/ (IF uid \in DOMAIN m THEN m[uid] ELSE 0) > mPerUidStatsEntriesLimit

\* C15 as stated: the map a tagSocket call scans is the live map at the time
\* of the scan, also when the configuration cell changes during the call.
C15_Original ==
    [][\A t \in Threads :
          tagSocketScan(t, TRUE) => (ConfigKnown /\ th[t].sel = LiveSelector)]_vars
\* C15 amended: a tagSocket call scans the map that the configuration cell
\* selected when the call read it (map A for SELECT_MAP_A, map B for
\* SELECT_MAP_B), and its verdict is the quota on that map as it is at the
\* scan, whatever the other map holds; the cell is read once, before the scan,
\* so a rotation between the read and the scan leaves the call scanning a map
\* that is no longer live.
C15_SelectedAtRead ==
    [][/\ \A fd \in CallFds, tag \in Tags :
            (tagSocketEnter(1, fd, tag, APP_A, APP_A) /\ th'[1].pc = "scan") =>
               /\ ConfigKnown
               /\ th'[1].sel = LiveSelector
       /\ tagSocketScan(1, TRUE) =>
            /\ th[1].sel \in Selectors
            /\ IF Blocked(SelectedMap(th[1].sel), th[1].chargeUid)
               THEN th'[1].pc = "idle" /\ last'.ret = -EMFILE
               ELSE th'[1].pc = "write"
       /\ (th[1].pc = "scan" /\ th'[1].pc = "scan") => th'[1].sel = th[1].sel]_vars
C15_Witness ==
    /\ th[1].pc = "write"
    /\ th[1].sel = SELECT_MAP_A
    /\ ConfigKnown /\ LiveSelector = SELECT_MAP_B
    /\ Blocked(mStatsMapB, APP_A)
    /\ ~Blocked(mStatsMapA, APP_A)

EntryOf(m, c) == IF c \in DOMAIN m THEN {m[c]} ELSE {}
ChargeKeys == {UidTagValue(APP_A, tag) : tag \in Tags}

\* C12: the attribution entry of a cookie is the ChargeKey of the last
\* successful tagSocket on it, or absent if the last successful call on it was
\* an untagSocket: a successful tag leaves exactly its ChargeKey, a successful
\* untag leaves nothing, no other step touches the entry, and so tag K1, untag,
\* tag K2 from any map leaves K2 for the cookie and the other entries as they
\* were.
C12_LastWriteWins ==
    /\ []((last.op = "tag" /\ last.ret = 0) =>
             EntryOf(mCookieTagMap, last.call.sock_cookie)
                = {UidTagValue(last.call.chargeUid, last.call.tag)})
    /\ []((last.op = "untag" /\ last.ret = 0) =>
             EntryOf(mCookieTagMap, last.call.sock_cookie) = {})
    /\ [](\A c \in Cookies, K1 \in ChargeKeys : \A K2 \in ChargeKeys \ {K1} :
             LET m1 == writeValue(mCookieTagMap, c, K1)
                 m2 == deleteValue(m1, c)
                 m3 == writeValue(m2, c, K2)
             IN /\ EntryOf(m1, c) = {K1}
                /\ EntryOf(m2, c) = {}
                /\ EntryOf(m3, c) = {K2}
                /\ EntryOf(writeValue(m1, c, K2), c) = {K2}
                /\ \A d \in Cookies \ {c} :
                      EntryOf(m3, d) = EntryOf(mCookieTagMap, d))
    /\ [][\A c \in Cookies :
            EntryOf(mCookieTagMap', c) # EntryOf(mCookieTagMap, c) =>
               /\ last'.ret = 0
               /\ last'.call.sock_cookie = c
               /\ last'.op = "tag" =>
                     EntryOf(mCookieTagMap', c)
                        = {UidTagValue(last'.call.chargeUid, last'.call.tag)}
               /\ last'.op = "untag" => EntryOf(mCookieTagMap', c) = {}]_vars
C12_Witness ==
    /\ last.op = "tag" /\ last.ret = 0 /\ last.call.tag = 2
    /\ EntryOf(mCookieTagMap, 1) = {UidTagValue(APP_A, 2)}
    /\ EntryOf(mCookieTagMap, 2) = {UidTagValue(APP_A, 1)}

\* C9: a tagSocket or untagSocket call returns 0, is let past the checks, or
\* has changed the attribution map only after an init() that returned ok, with
\* the gates passed, the mandatory hooks attached and all five maps
\* initialised; the cookie-tag map is usable only if the other four are; and
\* while init() has not run, or has failed, every call is refused.
C9_NoCallBeforeInit ==
    /\ MapUsable => (initStatus = "ok" /\ validMaps = MapNames)
    /\ initStatus = "ok" =>
          /\ validMaps = MapNames
          /\ GateRule(initPath) = 0
          /\ MandatoryHooks \subseteq Range(attached)
    /\ initStatus # "ok" =>
          /\ mCookieTagMap = EmptyMap
          /\ \A t \in Threads : th[t].pc = "idle"
          /\ last.op # "none" => last.ret < 0
    /\ (last.op # "none" /\ last.ret = 0) => initStatus = "ok"
C9_Witness ==
    /\ initStatus = "error"
    /\ validMaps = MapNames \ {"mCookieTagMap"}
    /\ last.op = "untag" /\ last.ret = -EPERM /\ last.call.sockFd = 3

(***************************************************************************)
(* Properties of racing callers (checked under SpecUpsert).                *)
(***************************************************************************)
\* C16: when tagSocket calls race on one cookie, each write that succeeds
\* leaves exactly the writer's ChargeKey as the entry of that cookie and every
\* other cookie's entry as it was, so after calls that all returned 0 the
\* cookie holds the ChargeKey of the call that wrote last; a write that fails
\* changes nothing, and every entry is the ChargeKey of some call.
C16_LastWriterWins ==
    /\ [](\A c \in DOMAIN mCookieTagMap : mCookieTagMap[c] \in ChargeKeys)
    /\ [][\A t \in Threads :
            /\ tagSocketWrite(t, TRUE) =>
                  /\ last'.op = "tag" /\ last'.ret = 0
                  /\ last'.call.sock_cookie = th[t].sock_cookie
                  /\ EntryOf(mCookieTagMap', th[t].sock_cookie)
                        = {UidTagValue(th[t].chargeUid, th[t].tag)}
                  /\ \A d \in Cookies \ {th[t].sock_cookie} :
                        EntryOf(mCookieTagMap', d) = EntryOf(mCookieTagMap, d)
            /\ tagSocketWrite(t, FALSE) =>
                  last'.ret < 0 /\ mCookieTagMap' = mCookieTagMap]_vars
C16_Witness ==
    /\ maxInflight = 2
    /\ last.op = "tag" /\ last.ret = 0 /\ last.call.sock_cookie = 1 /\ last.call.tag = 2
    /\ th[1].pc = "write" /\ th[1].sock_cookie = 1 /\ th[1].tag = 1
    /\ EntryOf(mCookieTagMap, 1) = {UidTagValue(APP_A, 2)}
    /\ EntryOf(mCookieTagMap, 2) = {UidTagValue(APP_A, 1)}

(***************************************************************************)
(* Properties of the socket kinds (checked under SpecFamily).              *)
(***************************************************************************)
SupportedFamily(fd) == SockInfo(fd).family \in {AF_INET, AF_INET6}
SupportedProto(fd) == SockInfo(fd).proto \in {IPPROTO_TCP, IPPROTO_UDP}
OpenFds == SockFds \ {ClosedFd}
\* the call passes the checks that come before the socket is looked at
PassesIdentityChecks(c, r) ==
    /\ MapUsable
    /\ c = r \/ Delegated(mUidPermissionMap, r)
    /\ c # AID_CLAT

\* C17: every entry of the attribution map belongs to a socket of family
\* AF_INET or AF_INET6 and protocol TCP or UDP; a tagSocket call that gets as
\* far as the socket returns -EAFNOSUPPORT for any other family and
\* -EPROTONOSUPPORT for any other protocol, with no cookie resolved and the
\* attribution map unchanged.
C17_SupportedSocketsOnly ==
    /\ [](/\ \A k \in DOMAIN mCookieTagMap :
                \E fd \in OpenFds :
                   getSocketCookie(fd) = k /\ SupportedFamily(fd) /\ SupportedProto(fd)
          /\ \A t \in Threads : th[t].pc # "idle" =>
                SupportedFamily(th[t].sockFd) /\ SupportedProto(th[t].sockFd)
          /\ \A fd \in OpenFds, c \in {APP_A, APP_B} :
                PassesIdentityChecks(c, APP_A) =>
                   /\ ~SupportedFamily(fd) =>
                         tagSocketChecks(validMaps, mUidPermissionMap, fd, c, APP_A)
                            = -EAFNOSUPPORT
                   /\ (SupportedFamily(fd) /\ ~SupportedProto(fd)) =>
                         tagSocketChecks(validMaps, mUidPermissionMap, fd, c, APP_A)
                            = -EPROTONOSUPPORT
          /\ (last.op = "tag" /\ last.ret \in {-EAFNOSUPPORT, -EPROTONOSUPPORT}) =>
                last.call.sock_cookie = 0)
    /\ [][\A fd \in OpenFds, c \in {APP_A, APP_B} :
            (tagSocketEnter(1, fd, 1, c, APP_A)
                /\ ~(SupportedFamily(fd) /\ SupportedProto(fd))) =>
               /\ th'[1].pc = "idle"
               /\ last'.op = "tag" /\ last'.ret < 0
               /\ last'.call.sock_cookie = 0
               /\ mCookieTagMap' = mCookieTagMap]_vars
C17_Witness ==
    /\ MapUsable
    /\ last.op = "tag" /\ last.ret = -EPROTONOSUPPORT /\ last.call.sockFd = 7
    /\ DOMAIN mCookieTagMap = {1, 2}

(***************************************************************************)
(* Frame of the two operations (checked under Spec).                       *)
(***************************************************************************)
\* a step of tagSocket or untagSocket by caller 1: the caller moves or returns
CallStep == th'[1] # th[1] \/ last' # last
\* a step in which a tagSocket call of caller 1 returns
TagReturns == last'.op = "tag" /\ th'[1].pc = "idle" /\ CallStep
OtherEntriesKept(c) ==
    \A d \in Cookies \ {c} : EntryOf(mCookieTagMap', d) = EntryOf(mCookieTagMap, d)

\* C19: a tagSocket call returns 0 exactly when it wrote the entry cookie ->
\* {chargeUid, tag}, and then no other cookie's entry changed; a tagSocket
\* call that returns a non-zero code, and every step of a call before its
\* write, leaves the attribution map unchanged; untagSocket changes at most
\* the entry of its own cookie; no step of either operation changes the two
\* counting maps, the configuration cell or the permission table.
C19_Frame ==
    [][/\ TagReturns =>
             IF last'.ret = 0
             THEN /\ th[1].pc = "write"
                  /\ EntryOf(mCookieTagMap', th[1].sock_cookie)
                        = {UidTagValue(th[1].chargeUid, th[1].tag)}
                  /\ last'.call.sock_cookie = th[1].sock_cookie
                  /\ OtherEntriesKept(th[1].sock_cookie)
             ELSE mCookieTagMap' = mCookieTagMap
       /\ \A b \in BOOLEAN :
             /\ tagSocketWrite(1, b) => (last'.ret = 0 <=> b)
             /\ tagSocketScan(1, b) => mCookieTagMap' = mCookieTagMap
       /\ \A fd \in CallFds, tag \in Tags :
             tagSocketEnter(1, fd, tag, APP_A, APP_A) => mCookieTagMap' = mCookieTagMap
       /\ \A fd \in CallFds :
             untagSocket(1, fd) => OtherEntriesKept(getSocketCookie(fd))
       /\ (CallStep \/ mCookieTagMap' # mCookieTagMap) => envVars' = envVars]_vars
C19_Witness ==
    /\ last.op = "tag" /\ last.ret = -E2BIG /\ last.call.sock_cookie = 1
    /\ DOMAIN mCookieTagMap = {2}
    /\ MapTotal(mStatsMapA) + MapTotal(mStatsMapB) > 0

(***************************************************************************)
(* Properties of the kernel version (checked under SpecUpgrade).           *)
(***************************************************************************)
\* the optional hooks that initPrograms attaches on the running kernel
OptionalEnabled == {h \in OptionalHooks : Step("attach", h) \in Range(AttachPlan)}
\* the rules that reject kernels at or above a version
CeilingRules == {6, 7}

\* C20 as stated: with tier, path and bitness fixed, gates that pass on a
\* kernel pass on every newer kernel, and the optional hooks enabled on a
\* kernel are enabled on every newer kernel.
C20_Original ==
    [][\A k \in KernelVersions :
          KernelUpgrade(k) =>
             /\ \A p \in Paths : GateRule(p) = 0 => GateRule(p)' = 0
             /\ OptionalEnabled \subseteq OptionalEnabled']_vars
\* C20 amended: the optional hooks enabled on a kernel are enabled on every
\* newer kernel, and gates that pass on a kernel pass on every newer kernel
\* unless the newer kernel is >= 5.16.0 on tier V with a 32-bit kernel or
\* >= 6.2.0 with a 32-bit userspace, in which case that rule (6 or 7) rejects
\* it; with a 64-bit kernel and userspace the gating is monotonic.
C20_MonotonicBelowCeilings ==
    [][\A k \in KernelVersions :
          KernelUpgrade(k) =>
             /\ \A p \in Paths :
                   GateRule(p) = 0 =>
                      /\ GateRule(p)' \in {0} \cup CeilingRules
                      /\ GateRule(p)' = 6 <=>
                            (sdk >= SDK_V /\ kernel32 /\ k >= KVER(5, 16, 0))
                      /\ GateRule(p)' = 7 <=>
                            /\ ~(sdk >= SDK_V /\ kernel32 /\ k >= KVER(5, 16, 0))
                            /\ user32 /\ k >= KVER(6, 2, 0)
                      /\ (~kernel32 /\ ~user32) => GateRule(p)' = 0
             /\ OptionalEnabled \subseteq OptionalEnabled']_vars
C20_Witness ==
    /\ sdk = SDK_V /\ kernel32 /\ ~user32
    /\ kver = KVER(5, 16, 0)
    /\ initStatus = "error"
    /\ initReason = <<GateReason(6), "">>
    /\ initPath = CanonicalPath

====
